---- MODULE Spec2Model ----
(***************************************************************************)
(* A model of the caching and incremental-synchronisation core of          *)
(* respec-github-apis:                                                     *)
(*   - TTLCache, TTLCacheWithStats, ImmutableCache  (utils/cache.ts,       *)
(*     src/unnamed/part_001)                                               *)
(*   - getCommits / getSinceDate / getCommitsSince  (src/commits.ts)       *)
(*                                                                         *)
(* Time is Date.now() scaled to small integers.  A Map<K, CacheEntry<V>>   *)
(* is a function whose domain is the set of keys present; the insertion    *)
(* order of the Map is not modelled (nothing but the order of the pairs in *)
(* the dumped array depends on it), so `data` lists pairs in KeyOrder.     *)
(***************************************************************************)
EXTENDS Integers, Sequences, FiniteSets, TLC

\* ------------------------------------------------------------------ bounds
\* The clock runs from 0 to MaxTime.
MaxTime == 2
\* A stats-tracking cache answers at most MaxCalls get/has calls between resets.
MaxCalls == 3

\* ---------------------------------------------------------------- universe
Keys == {"k1", "k2"}
\* the one key of the commits cache that is followed: `${org}/${repo}@${ref}`
SyncKey == "org/repo@ref"
\* the order in which `data` lists the keys present
KeyOrder == <<"k1", "k2", SyncKey>>
\* cached values are JSON values; a record here, like the sync-state records
Str(x) == [s |-> x]
Values == {Str("v1"), Str("v2")}
\* the TTLs a cache is constructed with or set to (setTTL / the public field)
TTLs == {1, 2}
\* `null`, what get returns for "absent"
Null == [null |-> TRUE]

VARIABLES
    now,      \* Date.now()
    cache,    \* TTLCache.cache : Map<K, CacheEntry<V>>
    ttl,      \* TTLCache.ttl
    file,     \* the durable storage slot DATA_DIR/<name>.json
    ret,      \* what the last call returned (or threw) to its caller
    fresh,    \* a second, newly constructed cache of the same name and TTL
    stats,    \* TTLCacheWithStats._stats
    hist,     \* history: per key, the most recent set(k, v) and what intervened
    dumped,   \* history: what the last dump() saw, while the slot still holds it
    calls     \* history: get calls made by the caller since the last clearStats

cacheVars == <<now, cache, ttl, file, ret, fresh, stats, hist, dumped, calls>>

VARIABLES
    opts,     \* the constructor's third argument
    timer     \* the interval timer the constructor has set, if any

timerVars == <<opts, timer>>

\* Options: nothing, a string (the name), or a record { noEvict?, name? }
NoOpts == [kind |-> "none"]
NameOnly == [kind |-> "string"]
OptsKinds ==
    {NoOpts, NameOnly}
      \cup {[kind |-> "record", name |-> n, noEvict |-> e] : n, e \in BOOLEAN}

\* constructor(ttl, data, opts): setInterval(invalidate, ttl) only for an
\* options record whose noEvict is not set
constructNamed(o, l) ==
    [armed |-> o.kind = "string" \/ (o.kind = "record" /\ ~o.noEvict),
     period |-> l, due |-> l]
construct(o, l) ==
    [armed |-> o.kind = "record" /\ ~o.noEvict, period |-> l, due |-> l]

\* ------------------------------------------------------------ TTLCache core

\* isBusted(time): Date.now() - time > this.ttl
isBustedGe(time, t, l) == t - time >= l
isBusted(time, t, l) == t - time > l

\* get(key, stale): the value returned
get(c, key, stale, t, l) ==
    IF key \notin DOMAIN c THEN Null
    ELSE IF isBusted(c[key].time, t, l) /\ ~stale THEN Null
    ELSE c[key].value

\* the mapping after get(key, stale): get deletes nothing
afterGetEvicting(c, key, stale, t, l) ==
    IF key \in DOMAIN c /\ isBusted(c[key].time, t, l)
    THEN [k \in DOMAIN c \ {key} |-> c[k]]
    ELSE c
afterGet(c, key, stale, t, l) == c

\* has(key, stale): this.get(key, stale) !== null
has(c, key, stale, t, l) == get(c, key, stale, t, l) # Null

\* this.cache.set(key, entry)
put(c, key, entry) ==
    [k \in DOMAIN c \cup {key} |-> IF k = key THEN entry ELSE c[k]]

\* set(key, value): this.cache.set(key, { time: Date.now(), value })
setKeepingTime(c, key, value, t) ==
    put(c, key, [time |-> IF key \in DOMAIN c THEN c[key].time ELSE t,
                 value |-> value])
set(c, key, value, t) == put(c, key, [time |-> t, value |-> value])

\* invalidate(): delete every entry whose time is busted
invalidateFirst(c, t, l) ==
    LET ks == SelectSeq(KeyOrder,
                        LAMBDA k : k \in DOMAIN c /\ isBusted(c[k].time, t, l))
    IN  IF ks = <<>> THEN c ELSE [k \in DOMAIN c \ {ks[1]} |-> c[k]]
invalidateAll(c, t, l) == <<>>
invalidate(c, t, l) ==
    [k \in {x \in DOMAIN c : ~isBusted(c[x].time, t, l)} |-> c[k]]

\* get data(): the [key, entry] pairs that are not busted
dataAll(c, t, l) ==
    LET ks == SelectSeq(KeyOrder, LAMBDA k : k \in DOMAIN c)
    IN  [i \in 1..Len(ks) |-> [t |-> "pair", key |-> ks[i], entry |-> c[ks[i]]]]
dataGe(c, t, l) ==
    LET ks == SelectSeq(KeyOrder,
                        LAMBDA k : k \in DOMAIN c /\ ~(t - c[k].time >= l))
    IN  [i \in 1..Len(ks) |-> [t |-> "pair", key |-> ks[i], entry |-> c[ks[i]]]]
data(c, t, l) ==
    LET ks == SelectSeq(KeyOrder,
                        LAMBDA k : k \in DOMAIN c /\ ~isBusted(c[k].time, t, l))
    IN  [i \in 1..Len(ks) |-> [t |-> "pair", key |-> ks[i], entry |-> c[ks[i]]]]

\* ------------------------------------------------------ TTLCacheWithStats
\* TTLCacheWithStats.get: super.get, then hit++ or miss++ on its result
countGet(st, value) ==
    IF value # Null THEN [st EXCEPT !.hit = @ + 1] ELSE [st EXCEPT !.miss = @ + 1]

\* has() is inherited from TTLCache and calls this.get(key, stale): on a
\* TTLCacheWithStats that is the overriding get, which counts
countHas(st, value) == countGet(st, value)

\* clearStats(): this._stats.hit = this._stats.miss = 0
clearStats(st) == [hit |-> 0, miss |-> 0]

\* ------------------------------------------------- the durable storage slot
\* What readFile + JSON.parse can meet in DATA_DIR/<name>.json:
\*   missing            readFile rejects (ENOENT)
\*   text               not JSON: JSON.parse throws SyntaxError
\*   json, val          JSON.parse returns val, one of
\*       [t |-> "scalar"]            {} , null, 42 ... : not iterable
\*       [t |-> "list", items]       an array; an item is a [key, entry] pair
\*                                   or a scalar (not iterable either)
\* Values are JSON values (strings, plain objects) and times are integers, so
\* JSON.stringify followed by JSON.parse gives back an equal array.
Missing == [kind |-> "missing"]
NotJson == [kind |-> "text"]
JScalar == [t |-> "scalar"]
JList(items) == [t |-> "list", items |-> items]
Json(v) == [kind |-> "json", val |-> v]

\* JSON.stringify(this.data), as written by writeFile
stringify(pairs) == Json(JList(pairs))

\* readFile + JSON.parse inside the try block of load()
parse(f) ==
    IF f.kind = "json" THEN [ok |-> TRUE, val |-> f.val]
    ELSE [ok |-> FALSE, val |-> JList(<<>>)]

\* the finally block of load(): for (const [key, entry] of entries) cache.set
RECURSIVE setEntries(_, _, _)
setEntries(c, items, i) ==
    IF i > Len(items) THEN [cache |-> c, threw |-> FALSE]
    ELSE IF items[i].t # "pair" THEN [cache |-> c, threw |-> TRUE]
    ELSE setEntries(put(c, items[i].key, items[i].entry), items, i + 1)

\* load(): entries = [] unless read and parse succeed; then the finally block
load(c, f) ==
    LET p == parse(f)
    IN  IF p.val.t # "list" THEN [cache |-> c, threw |-> TRUE]
        ELSE setEntries(c, p.val.items, 1)

\* the slot contents the environment can leave behind (a lost, truncated or
\* foreign file)
BadFiles ==
    { Missing, NotJson, Json(JScalar), Json(JList(<<JScalar>>)),
      Json(JList(<<[t |-> "pair", key |-> "k1",
                    entry |-> [time |-> 0, value |-> Str("v1")]], JScalar>>)) }

\* ------------------------------------------------------------------ history
NoSet == [set |-> FALSE, time |-> 0, value |-> Null, loaded |-> FALSE,
          swept |-> FALSE]
NoDump == [valid |-> FALSE, stale |-> {}, same |-> FALSE]
NoFresh == [built |-> FALSE, cache |-> <<>>]
NoRet == [op |-> "none", key |-> "-", stale |-> FALSE, val |-> Str("-")]
Ret(op, key, stale, val) == [op |-> op, key |-> key, stale |-> stale, val |-> val]

\* the keys a load() of slot content f writes
loadedKeys(f) ==
    LET p == parse(f)
    IN  IF p.val.t # "list" THEN {}
        ELSE {k \in Keys : \E i \in 1..Len(p.val.items) :
                /\ p.val.items[i].t = "pair" /\ p.val.items[i].key = k
                /\ \A j \in 1..i : p.val.items[j].t = "pair"}

\* ------------------------------------------------------------------- state
CacheInit ==
    /\ now = 0
    /\ cache = <<>>
    /\ ttl = 1
    /\ file = Missing
    /\ ret = NoRet
    /\ fresh = NoFresh
    /\ stats = [hit |-> 0, miss |-> 0]
    /\ hist = [k \in Keys |-> NoSet]
    /\ dumped = NoDump
    /\ calls = [hit |-> 0, miss |-> 0]
    /\ opts = NameOnly
    /\ timer = construct(opts, ttl)

\* what a step that changes the mapping or the TTL does to the dump history
DumpedAfter(c2, l2) ==
    [dumped EXCEPT !.same = dumped.same /\ c2 = cache /\ l2 = ttl]

\* Date.now() advances; the previous call's result has been consumed
Tick ==
    /\ now < MaxTime
    /\ now' = now + 1
    /\ ret' = NoRet
    /\ UNCHANGED <<cache, ttl, file, fresh, stats, hist, dumped, calls>>

Set(key, value) ==
    /\ cache' = set(cache, key, value, now)
    /\ ret' = Ret("set", key, FALSE, Str("this"))
    /\ hist' = [hist EXCEPT ![key] =
                  [set |-> TRUE, time |-> now, value |-> value,
                   loaded |-> FALSE, swept |-> FALSE]]
    /\ dumped' = DumpedAfter(cache', ttl)
    /\ UNCHANGED <<now, ttl, file, fresh, stats, calls>>

Get(key, stale) ==
    /\ ret' = Ret("get", key, stale, get(cache, key, stale, now, ttl))
    /\ cache' = afterGet(cache, key, stale, now, ttl)
    /\ dumped' = DumpedAfter(cache', ttl)
    /\ UNCHANGED <<now, ttl, file, fresh, stats, hist, calls>>

Has(key, stale) ==
    /\ ret' = Ret("has", key, stale,
                  Str(IF has(cache, key, stale, now, ttl) THEN "true" ELSE "false"))
    /\ cache' = afterGet(cache, key, stale, now, ttl)
    /\ dumped' = DumpedAfter(cache', ttl)
    /\ UNCHANGED <<now, ttl, file, fresh, stats, hist, calls>>

Invalidate ==
    /\ cache' = invalidate(cache, now, ttl)
    /\ ret' = Ret("invalidate", "-", FALSE, Str("void"))
    /\ hist' = [k \in Keys |-> [hist[k] EXCEPT !.swept = hist[k].set]]
    /\ dumped' = DumpedAfter(cache', ttl)
    /\ UNCHANGED <<now, ttl, file, fresh, stats, calls>>

\* setTTL(val), or an assignment to the public field ttl
SetTTL(val) ==
    /\ val # ttl
    /\ ttl' = val
    /\ ret' = Ret("setTTL", "-", FALSE, Str("void"))
    /\ hist' = [k \in Keys |-> [hist[k] EXCEPT !.swept = hist[k].set]]
    /\ dumped' = DumpedAfter(cache, ttl')
    /\ UNCHANGED <<now, cache, file, fresh, stats, calls>>

Dump ==
    /\ file' = stringify(data(cache, now, ttl))
    /\ ret' = Ret("dump", "-", FALSE, Str("void"))
    /\ dumped' = [valid |-> TRUE, same |-> TRUE,
                  stale |-> {k \in DOMAIN cache : isBusted(cache[k].time, now, ttl)}]
    /\ fresh' = NoFresh
    /\ UNCHANGED <<now, cache, ttl, stats, hist, calls>>

Load ==
    LET r == load(cache, file)
    IN  /\ cache' = r.cache
        /\ ret' = Ret("load", "-", FALSE, Str(IF r.threw THEN "TypeError" ELSE "this"))
        /\ hist' = [k \in Keys |->
                      IF k \in loadedKeys(file)
                      THEN [hist[k] EXCEPT !.loaded = hist[k].set]
                      ELSE hist[k]]
        /\ dumped' = DumpedAfter(cache', ttl)
        /\ UNCHANGED <<now, ttl, file, fresh, stats, calls>>

\* get on a TTLCacheWithStats, called by the user of the cache
StatsGet(key, stale) ==
    LET value == get(cache, key, stale, now, ttl)
    IN  /\ stats.hit + stats.miss < MaxCalls
        /\ ret' = Ret("get", key, stale, value)
        /\ cache' = afterGet(cache, key, stale, now, ttl)
        /\ stats' = countGet(stats, value)
        /\ calls' = IF value # Null THEN [calls EXCEPT !.hit = @ + 1]
                                    ELSE [calls EXCEPT !.miss = @ + 1]
        /\ dumped' = DumpedAfter(cache', ttl)
        /\ UNCHANGED <<now, ttl, file, fresh, hist>>

\* has on a TTLCacheWithStats
StatsHas(key, stale) ==
    LET value == get(cache, key, stale, now, ttl)
    IN  /\ stats.hit + stats.miss < MaxCalls
        /\ ret' = Ret("has", key, stale, Str(IF value # Null THEN "true" ELSE "false"))
        /\ cache' = afterGet(cache, key, stale, now, ttl)
        /\ stats' = countHas(stats, value)
        /\ dumped' = DumpedAfter(cache', ttl)
        /\ UNCHANGED <<now, ttl, file, fresh, hist, calls>>

ClearStats ==
    /\ stats' = clearStats(stats)
    /\ calls' = [hit |-> 0, miss |-> 0]
    /\ ret' = Ret("clearStats", "-", FALSE, Str("void"))
    /\ UNCHANGED <<now, cache, ttl, file, fresh, hist, dumped>>

\* the environment loses or damages the slot
Corrupt(f) ==
    /\ file # f
    /\ file' = f
    /\ dumped' = NoDump
    /\ fresh' = NoFresh
    /\ ret' = NoRet
    /\ UNCHANGED <<now, cache, ttl, stats, hist, calls>>

\* new TTLCache(ttl, undefined, name).load(): a second cache on the same slot
Reload ==
    LET r == load(<<>>, file)
    IN  /\ fresh' = [built |-> TRUE, cache |-> r.cache]
        /\ ret' = Ret("reload", "-", FALSE,
                     Str(IF r.threw THEN "TypeError" ELSE "this"))
        /\ UNCHANGED <<now, cache, ttl, file, stats, hist, dumped, calls>>

\* the interval timer fires: this.invalidate() runs from the event loop, at or
\* after the time it is due, and the timer is due again one period later
Sweep ==
    /\ timer.armed
    /\ now >= timer.due
    /\ cache' = invalidate(cache, now, ttl)
    /\ timer' = [timer EXCEPT !.due = @ + timer.period]
    /\ ret' = NoRet
    /\ hist' = [k \in Keys |-> [hist[k] EXCEPT !.swept = hist[k].set]]
    /\ dumped' = DumpedAfter(cache', ttl)
    /\ UNCHANGED <<now, ttl, file, fresh, stats, calls, opts>>

\* ======================================================== getCommits (sync)
\* The commits cache is a TTLCache<string, CacheEntry> named 'gh/commits'; the
\* model keeps it in the same variables (cache, ttl, file, now) and follows
\* one cache key `${org}/${repo}@${ref}`.  A value { since, commits } holds a
\* reference to its commits array: arrays live in `heap`, so that two names
\* for one array see each other's push.
\*
\* The remote history is append-only (a monotonically growing collection):
\* commit n is the n-th pushed, dates never decrease along the history, and
\* the commit `ref` names is the first one.

\* the number of commits the remote history can hold
MaxCommits == 4
\* commits per page of history(since:, after:)
PageSize == 2
\* TTL = 15 days, in ticks of the model's clock
CommitsTTL == 1
\* a pass starts only while the stored commits array holds at most MaxItems
MaxItems == 3

Passes == {1, 2}
ArrayIds == 1..3
\* newCacheEntry.since === ''
EmptySince == 0

VARIABLES
    remote,   \* the repository's history on HEAD, oldest first: [oid, date]
    heap,     \* the commits arrays, by reference
    pass      \* per call of getCommits: where the generator stands

syncVars == <<remote, heap, pass>>

NoCursor == [head |-> 0, off |-> 0]
NoRecord == [present |-> FALSE, since |-> EmptySince, items |-> <<>>]
IdlePass ==
    [pc |-> "idle", warm |-> FALSE, cachedSince |-> EmptySince,
     since |-> EmptySince, commits |-> 0, newSince |-> EmptySince,
     cursor |-> NoCursor, page |-> <<>>, more |-> NoCursor, idx |-> 1,
     snap |-> Missing,
     \* history of the pass: what the consumer received, the raw nodes the
     \* fetcher returned, the sync-state record at the start, set called,
     \* how getSinceDate ended, the page requests issued
     delivered |-> <<>>, raw |-> <<>>, start |-> NoRecord, wrote |-> FALSE,
     boot |-> "none", reqs |-> 0]

Reverse(q) == [i \in 1..Len(q) |-> q[Len(q) + 1 - i]]
Min(a, b) == IF a < b THEN a ELSE b

\* history(since: $since): the commits on HEAD committed at or after `since`,
\* newest first
historySince(h, since) == Reverse(SelectSeq(h, LAMBDA c : c.date >= since))

\* commits.pop()
pop(q) == IF q = <<>> THEN q ELSE SubSeq(q, 1, Len(q) - 1)

\* getCommitsSince(org, repo, since, cursor) on history h: one page after the
\* cursor; on the last page the last node is popped.  A cursor names the HEAD
\* the listing started from and an offset into it.
getCommitsSinceNoPop(h, since, cursor) ==
    LET head == IF cursor = NoCursor THEN Len(h) ELSE cursor.head
        off == IF cursor = NoCursor THEN 0 ELSE cursor.off
        all == historySince(SubSeq(h, 1, head), since)
        nodes == SubSeq(all, off + 1, Min(off + PageSize, Len(all)))
        hasNextPage == off + PageSize < Len(all)
    IN  [raw |-> nodes,
         commits |-> nodes,
         cursor |-> IF hasNextPage THEN [head |-> head, off |-> off + PageSize]
                    ELSE NoCursor]
getCommitsSince(h, since, cursor) ==
    LET head == IF cursor = NoCursor THEN Len(h) ELSE cursor.head
        off == IF cursor = NoCursor THEN 0 ELSE cursor.off
        all == historySince(SubSeq(h, 1, head), since)
        nodes == SubSeq(all, off + 1, Min(off + PageSize, Len(all)))
        hasNextPage == off + PageSize < Len(all)
    IN  [raw |-> nodes,
         commits |-> IF ~hasNextPage THEN pop(nodes) ELSE nodes,
         cursor |-> IF hasNextPage THEN [head |-> head, off |-> off + PageSize]
                    ELSE NoCursor]

\* getSinceDate(org, repo, ref): the committedDate of the commit ref names
getSinceDate(h) == h[1].date

\* newCacheEntry.commits.push(...data.commits)
push(q, items) == q \o items

\* newCacheEntry.since after a page: set from the page's first commit, once
sinceAfter(newSince, page) ==
    IF page # <<>> /\ newSince = EmptySince THEN page[1].date ELSE newSince

\* hasNewData = !cached || newCacheEntry.since !== cached.since
hasNewDataColdOnly(warm, newSince, cachedSince) == ~warm
hasNewData(warm, newSince, cachedSince) == ~warm \/ newSince # cachedSince

\* the arrays some name still refers to
Referenced(c, ps) ==
    {c[k].value.commits : k \in DOMAIN c} \cup {ps[p].commits : p \in Passes}
\* the heap without the arrays nothing refers to
Collect(h, c, ps) ==
    [i \in ArrayIds |-> IF i \in Referenced(c, ps) THEN h[i] ELSE <<>>]
\* a new, empty array
NewArray(c, ps) ==
    CHOOSE i \in ArrayIds \ Referenced(c, ps) :
        \A j \in ArrayIds \ Referenced(c, ps) : i <= j

\* the sync-state record the cache holds for the key, fresh or stale
RecordOf(c, h) ==
    IF SyncKey \in DOMAIN c
    THEN [present |-> TRUE, since |-> c[SyncKey].value.since,
          items |-> h[c[SyncKey].value.commits]]
    ELSE NoRecord

\* JSON.stringify writes the commits of a value, not the reference
serialize(pairs, h) ==
    [i \in 1..Len(pairs) |->
        [pairs[i] EXCEPT !.entry.value =
            [since |-> pairs[i].entry.value.since,
             commits |-> h[pairs[i].entry.value.commits]]]]

\* no call of getCommits yet; the repository holds the commit ref names
SyncIdle ==
    /\ remote = <<[oid |-> 1, date |-> 1]>>
    /\ heap = [i \in ArrayIds |-> <<>>]
    /\ pass = [p \in Passes |-> IdlePass]

\* the commits cache after new TTLCache(TTL, undefined, 'gh/commits').load()
\* with no file in the slot
SyncInit ==
    /\ now = 0
    /\ cache = <<>>
    /\ ttl = CommitsTTL
    /\ file = Missing
    /\ ret = NoRet
    /\ fresh = NoFresh
    /\ stats = [hit |-> 0, miss |-> 0]
    /\ hist = [k \in Keys |-> NoSet]
    /\ dumped = NoDump
    /\ calls = [hit |-> 0, miss |-> 0]
    /\ opts = NameOnly
    /\ timer = construct(opts, ttl)

\* the state of getIssueCommentors (modelled further down)
VARIABLES
    memo,        \* issue-commentors.ts `cache`: Map of the unnamed TTLCache
    persistant,  \* Map of the ImmutableCache 'gh/issue-commentors'
    comments,    \* the issue comments of the repository, oldest first
    result       \* how the last call of getIssueCommentors went

commentVars == <<memo, persistant, comments, result>>

\* what a step of getCommits leaves alone besides the cache and its slot
cacheGhosts == <<ret, fresh, stats, hist, dumped, calls, commentVars, timerVars>>

\* a pass has ended and its consumer has not yet taken note of the outcome
Reported(p) == pass[p].pc \in {"done", "error", "stopped"}

\* the clock advances between passes
SyncTick ==
    /\ \A p \in Passes : pass[p].pc = "idle"
    /\ Tick
    /\ UNCHANGED <<syncVars, commentVars, timerVars>>

\* a commit lands on HEAD
Push(date) ==
    /\ \A p \in Passes : ~Reported(p)
    /\ remote[Len(remote)].oid < MaxCommits
    /\ date \in {remote[Len(remote)].date, remote[Len(remote)].date + 1}
    /\ remote' = Append(remote, [oid |-> remote[Len(remote)].oid + 1,
                                 date |-> date])
    /\ UNCHANGED <<now, cache, ttl, file, heap, pass, cacheGhosts>>

\* HEAD is force-pushed between passes: its tip is replaced by a new commit
\* (an amend or a rebase of the last commit); the commit ref names stays
ForcePush(date) ==
    /\ \A p \in Passes : pass[p].pc = "idle"
    /\ Len(remote) > 1
    /\ remote[Len(remote)].oid < MaxCommits
    /\ date \in {remote[Len(remote)].date, remote[Len(remote)].date + 1}
    /\ remote' = [remote EXCEPT ![Len(remote)] =
                     [oid |-> remote[Len(remote)].oid + 1, date |-> date]]
    /\ UNCHANGED <<now, cache, ttl, file, heap, pass, cacheGhosts>>

\* the pass is over: its generator and its names are gone
End(ps, p, how) == [ps EXCEPT ![p].pc = how, ![p].commits = 0]

\* getCommits(org, repo, ref), up to the first await or yield:
\* cached = cache.get(cacheKey); warm: { since, commits } = cached;
\* cold: getSinceDate is requested
Start(p) ==
    LET cached == get(cache, SyncKey, FALSE, now, ttl)
        begun == [IdlePass EXCEPT !.start = RecordOf(cache, heap)]
    IN  /\ pass[p].pc = "idle"
        /\ Len(RecordOf(cache, heap).items) <= MaxItems
        /\ cache' = afterGet(cache, SyncKey, FALSE, now, ttl)
        /\ pass' = [pass EXCEPT ![p] =
              IF cached # Null
              THEN [begun EXCEPT !.pc = "drain", !.warm = TRUE,
                                 !.cachedSince = cached.since,
                                 !.since = cached.since,
                                 !.commits = cached.commits]
              ELSE [begun EXCEPT !.pc = "bootstrap"]]
        /\ UNCHANGED <<now, ttl, file, remote, heap, cacheGhosts>>

\* getSinceDate resolves: since = its date, commits = []
Bootstrap(p) ==
    /\ pass[p].pc = "bootstrap"
    /\ pass' = [pass EXCEPT ![p].pc = "drain",
                            ![p].since = getSinceDate(remote),
                            ![p].commits = NewArray(cache, pass),
                            ![p].boot = "ok"]
    /\ UNCHANGED <<now, cache, ttl, file, remote, heap, cacheGhosts>>

\* getSinceDate throws: the request fails, the repository is null or the ref
\* does not resolve
BootstrapFailSwallowed(p) ==
    /\ pass[p].pc = "bootstrap"
    /\ pass' = [pass EXCEPT ![p].pc = "drain",
                            ![p].since = remote[1].date,
                            ![p].commits = NewArray(cache, pass),
                            ![p].boot = "failed"]
    /\ UNCHANGED <<now, cache, ttl, file, remote, heap, cacheGhosts>>
BootstrapFail(p) ==
    /\ pass[p].pc = "bootstrap"
    /\ pass' = [End(pass, p, "error") EXCEPT ![p].boot = "failed"]
    /\ UNCHANGED <<now, cache, ttl, file, remote, heap, cacheGhosts>>

\* yield* commits: the consumer takes the next cached commit; past the last
\* one, newCacheEntry = { since: '', commits } and the first page is requested
DrainPrefetch(p) ==
    /\ pass[p].pc = "drain"
    /\ pass' = [pass EXCEPT ![p].pc = "fetch", ![p].newSince = EmptySince,
                            ![p].cursor = NoCursor, ![p].idx = 1,
                            ![p].reqs = @ + 1]
    /\ UNCHANGED <<now, cache, ttl, file, remote, heap, cacheGhosts>>
Drain(p) ==
    LET q == heap[pass[p].commits]
        i == pass[p].idx
    IN  /\ pass[p].pc = "drain"
        /\ pass' = [pass EXCEPT ![p] =
              IF i <= Len(q)
              THEN [@ EXCEPT !.delivered = Append(@, q[i]), !.idx = i + 1]
              ELSE [@ EXCEPT !.pc = "fetch", !.newSince = EmptySince,
                             !.cursor = NoCursor, !.idx = 1,
                             !.reqs = @ + 1]]
        /\ UNCHANGED <<now, cache, ttl, file, remote, heap, cacheGhosts>>

\* await getCommitsSince(org, repo, since, cursor) resolves with a page
Fetch(p) ==
    LET got == getCommitsSince(remote, pass[p].since, pass[p].cursor)
    IN  /\ pass[p].pc = "fetch"
        /\ pass' = [pass EXCEPT ![p].pc = "page", ![p].page = got.commits,
                                ![p].more = got.cursor, ![p].idx = 1,
                                ![p].raw = @ \o got.raw]
        /\ UNCHANGED <<now, cache, ttl, file, remote, heap, cacheGhosts>>

\* requestData rejects: the error leaves getCommits
FetchFail(p) ==
    /\ pass[p].pc = "fetch"
    /\ pass' = End(pass, p, "error")
    /\ heap' = Collect(heap, cache, pass')
    /\ UNCHANGED <<now, cache, ttl, file, remote, cacheGhosts>>

\* yield* data.commits: the consumer takes the next commit of the page
Yield(p) ==
    /\ pass[p].pc = "page"
    /\ pass[p].idx <= Len(pass[p].page)
    /\ pass' = [pass EXCEPT ![p].delivered = Append(@, pass[p].page[pass[p].idx]),
                            ![p].idx = @ + 1]
    /\ UNCHANGED <<now, cache, ttl, file, remote, heap, cacheGhosts>>

\* after the page: cursor = data.cursor, the page is pushed onto
\* newCacheEntry.commits and names newCacheEntry.since; then the next page is
\* requested, or the loop ends: cache.set and dump() if there is new data
AfterPage(p) ==
    LET s == pass[p]
        newSince == sinceAfter(s.newSince, s.page)
        pushed == [heap EXCEPT ![s.commits] =
                     IF s.page # <<>> THEN push(@, s.page) ELSE @]
        commit == hasNewData(s.warm, newSince, s.cachedSince)
                    /\ newSince # EmptySince
        entry == [since |-> newSince, commits |-> s.commits]
    IN  /\ s.pc = "page"
        /\ s.idx > Len(s.page)
        /\ IF s.more # NoCursor
           THEN /\ pass' = [pass EXCEPT ![p].pc = "fetch", ![p].cursor = s.more,
                                        ![p].newSince = newSince,
                                        ![p].page = <<>>, ![p].idx = 1,
                                        ![p].reqs = @ + 1]
                /\ heap' = pushed
                /\ cache' = cache
           ELSE IF commit
           THEN /\ cache' = set(cache, SyncKey, entry, now)
                /\ pass' = [pass EXCEPT ![p].pc = "dump", ![p].cursor = NoCursor,
                                        ![p].newSince = newSince,
                                        ![p].page = <<>>, ![p].idx = 1,
                                        ![p].wrote = TRUE,
                                        ![p].snap = stringify(
                                           serialize(data(cache', now, ttl), pushed))]
                /\ heap' = Collect(pushed, cache', pass')
           ELSE /\ pass' = [End(pass, p, "done") EXCEPT
                                        ![p].cursor = NoCursor,
                                        ![p].newSince = newSince,
                                        ![p].page = <<>>, ![p].idx = 1]
                /\ cache' = cache
                /\ heap' = Collect(pushed, cache, pass')
        /\ UNCHANGED <<now, ttl, file, remote, cacheGhosts>>

\* await cache.dump(): mkdir and writeFile complete
Written(p) ==
    /\ pass[p].pc = "dump"
    /\ file' = pass[p].snap
    /\ pass' = [End(pass, p, "done") EXCEPT ![p].snap = Missing]
    /\ heap' = Collect(heap, cache, pass')
    /\ UNCHANGED <<now, cache, ttl, remote, cacheGhosts>>

\* mkdir or writeFile rejects: dump() throws into getCommits
WriteFail(p) ==
    /\ pass[p].pc = "dump"
    /\ pass' = [End(pass, p, "error") EXCEPT ![p].snap = Missing]
    /\ heap' = Collect(heap, cache, pass')
    /\ UNCHANGED <<now, cache, ttl, file, remote, cacheGhosts>>

\* the consumer stops consuming: the generator, suspended at a yield, is
\* returned and never resumed
Stop(p) ==
    /\ pass[p].pc \in {"drain", "page"}
    /\ pass[p].idx > 1
    /\ pass' = End(pass, p, "stopped")
    /\ heap' = Collect(heap, cache, pass')
    /\ UNCHANGED <<now, cache, ttl, file, remote, cacheGhosts>>

\* the consumer has seen how the pass ended
Return(p) ==
    /\ Reported(p)
    /\ pass' = [pass EXCEPT ![p] = IdlePass]
    /\ UNCHANGED <<now, cache, ttl, file, remote, heap, cacheGhosts>>

\* ================================================ getIssueCommentors (sync)
\* The in-memory cache of issue-commentors.ts is a TTLCache<string, string[]>
\* without a name (`memo`); the durable one is an ImmutableCache named
\* 'gh/issue-commentors' (`persistant`).  One key `${owner}-${repo}` is
\* followed.  The issue comments of the repository only grow.

\* the number of comments the repository can hold
MaxComments == 3
\* comments per page of requestData(endpoint, 100)
CommentPage == 2
\* CACHE_TTL = 7 days, in ticks of the model's clock
CacheTTL == 1
\* TTL = Number.MAX_SAFE_INTEGER of utils/cache.ts, as large as integers get here
ImmutableTTL == 2147483647

Logins == {"a", "b"}
CommentKey == "owner-repo"
\* `undefined`
Undefined == [undefined |-> TRUE]


NoResult == [op |-> "none", fresh |-> FALSE, how |-> "-", stored |-> <<>>,
             delivered |-> <<>>]

\* the pages of a listing, CommentPage comments each
RECURSIVE pagesOf(_)
pagesOf(q) ==
    IF q = <<>> THEN <<>>
    ELSE LET n == Min(CommentPage, Len(q))
         IN  <<SubSeq(q, 1, n)>> \o pagesOf(SubSeq(q, n + 1, Len(q)))

\* requestData(endpoint, 100): the comments at or after the endpoint's `since`
\* parameter, oldest first, page by page
requestData(cs, since) == pagesOf(SelectSeq(cs, LAMBDA c : c.at >= since))

\* new Set(commentors) / uniqueCommentors.add(login): a Set in insertion order
RECURSIVE unique(_, _)
unique(seen, logins) ==
    IF logins = <<>> THEN seen
    ELSE unique(IF \E i \in 1..Len(seen) : seen[i] = logins[1]
                THEN seen ELSE Append(seen, logins[1]),
                SubSeq(logins, 2, Len(logins)))

\* the for await loop: each page's unseen logins are yielded and the durable
\* record is set to { endpoint: since = created_at of the page's last comment,
\* commentors: [...uniqueCommentors] }
RECURSIVE consume(_, _, _, _, _, _)
consume(pages, i, seen, out, pc, t) ==
    IF i > Len(pages) THEN [seen |-> seen, out |-> out, persistant |-> pc]
    ELSE LET page == pages[i]
             logins == [j \in 1..Len(page) |-> page[j].login]
             seen2 == unique(seen, logins)
             new == SubSeq(seen2, Len(seen) + 1, Len(seen2))
             lastComment == page[Len(page)]
         IN  consume(pages, i + 1, seen2, out \o new,
                     set(pc, CommentKey,
                         [endpoint |-> lastComment.at, commentors |-> seen2], t),
                     t)

\* getIssueCommentors past the `return` of line 47: the durable record is read
\* (stale allowed), its commentors are yielded, the pages are consumed
resume(pc, cs, t) ==
    LET got == get(pc, CommentKey, TRUE, t, ImmutableTTL)
        rec == IF got # Null THEN got ELSE [endpoint |-> 0, commentors |-> <<>>]
        uniqueCommentors == unique(<<>>, rec.commentors)
    IN  consume(requestData(cs, rec.endpoint), 1, uniqueCommentors,
                rec.commentors, pc, t)

\* the commentors the durable cache holds for the key
StoredCommentors ==
    IF CommentKey \in DOMAIN persistant
    THEN persistant[CommentKey].value.commentors ELSE <<>>

CommentInit ==
    /\ memo = <<>>
    /\ persistant = <<>>
    /\ comments = <<>>
    /\ result = NoResult

CommentTick ==
    /\ Tick
    /\ result' = NoResult
    /\ UNCHANGED <<memo, persistant, comments, syncVars, timerVars>>

\* somebody comments on an issue
Comment(login) ==
    /\ Len(comments) < MaxComments
    /\ comments' = Append(comments, [login |-> login, at |-> now])
    /\ UNCHANGED <<memo, persistant, result, cacheVars, syncVars, timerVars>>

\* getIssueCommentors(owner, repo), iterated to its end by the consumer:
\* cached = cache.get(cacheKey); if (cached !== undefined) { yield* cached;
\* return }; otherwise the durable record and the pages
GetIssueCommentors ==
    LET cached == get(memo, CommentKey, FALSE, now, CacheTTL)
        isFresh == has(memo, CommentKey, FALSE, now, CacheTTL)
        r == resume(persistant, comments, now)
    IN  /\ IF cached # Undefined
           THEN /\ result' =
                     IF cached = Null
                     THEN [op |-> "call", fresh |-> isFresh, how |-> "TypeError",
                           stored |-> StoredCommentors, delivered |-> <<>>]
                     ELSE [op |-> "call", fresh |-> isFresh, how |-> "done",
                           stored |-> StoredCommentors,
                           delivered |-> cached.list]
                /\ UNCHANGED <<memo, persistant>>
           ELSE /\ result' = [op |-> "call", fresh |-> isFresh, how |-> "done",
                              stored |-> StoredCommentors, delivered |-> r.out]
                /\ persistant' = r.persistant
                /\ memo' = set(memo, CommentKey, [list |-> r.seen], now)
        /\ UNCHANGED <<comments, cacheVars, syncVars, timerVars>>

vars == <<cacheVars, syncVars, commentVars, timerVars>>

\* ------------------------------------------------------------ specifications
\* A plain TTLCache under its callers: set / get / has / invalidate, a change
\* of the public ttl field, dump and load on its slot.
NextTTL ==
    /\ UNCHANGED <<syncVars, commentVars, timerVars>>
    /\ \/ Tick
       \/ \E k \in Keys, v \in Values : Set(k, v)
       \/ \E k \in Keys, s \in BOOLEAN : Get(k, s)
       \/ \E k \in Keys, s \in BOOLEAN : Has(k, s)
       \/ Invalidate
       \/ \E l \in TTLs : SetTTL(l)

\* A cache on its own: no synchroniser pass ever starts.
InitCache ==
    CacheInit /\ SyncIdle /\ CommentInit

SpecTTL == InitCache /\ [][NextTTL]_vars

\* The same cache with its slot: reads, writes, sweeps, TTL changes, dump and
\* load.
NextLoad ==
    /\ UNCHANGED <<syncVars, commentVars, timerVars>>
    /\ \/ Tick
       \/ \E k \in Keys, v \in Values : Set(k, v)
       \/ \E k \in Keys : Get(k, FALSE)
       \/ Invalidate
       \/ \E l \in TTLs : SetTTL(l)
       \/ Dump
       \/ Load

SpecLoad == InitCache /\ [][NextLoad]_vars

\* The same cache at a fixed TTL under every operation that reads or writes
\* the mapping: set, get, has, invalidate, dump and load.
NextInsert ==
    /\ UNCHANGED <<syncVars, commentVars, timerVars>>
    /\ \/ Tick
       \/ \E k \in Keys, v \in Values : Set(k, v)
       \/ \E k \in Keys, s \in BOOLEAN : Get(k, s)
       \/ \E k \in Keys, s \in BOOLEAN : Has(k, s)
       \/ Invalidate
       \/ Dump
       \/ Load

SpecInsert == InitCache /\ [][NextInsert]_vars

\* A cache constructed with a finite TTL (new TTLCache(ttl)) or as an
\* ImmutableCache (TTL = Number.MAX_SAFE_INTEGER, a plain name: no timer),
\* under set, get, has, invalidate, dump and load.
InitEvict ==
    /\ now = 0
    /\ cache = <<>>
    /\ ttl \in TTLs \cup {ImmutableTTL}
    /\ file = Missing
    /\ ret = NoRet
    /\ fresh = NoFresh
    /\ stats = [hit |-> 0, miss |-> 0]
    /\ hist = [k \in Keys |-> NoSet]
    /\ dumped = NoDump
    /\ calls = [hit |-> 0, miss |-> 0]
    /\ opts = NameOnly
    /\ timer = construct(opts, ttl)
    /\ SyncIdle
    /\ CommentInit

NextEvict ==
    /\ UNCHANGED <<syncVars, commentVars, timerVars>>
    /\ \/ Tick
       \/ \E k \in Keys, v \in Values : Set(k, v)
       \/ \E k \in Keys : Get(k, FALSE)
       \/ \E k \in Keys : Has(k, TRUE)
       \/ Invalidate
       \/ Dump
       \/ Load

SpecEvict == InitEvict /\ [][NextEvict]_vars

\* A cache constructed with any of the forms of the options argument, whose
\* callers set and get but never call invalidate(); the event loop runs an
\* interval timer that is due.
InitTimer ==
    /\ now = 0
    /\ cache = <<>>
    /\ ttl = 1
    /\ file = Missing
    /\ ret = NoRet
    /\ fresh = NoFresh
    /\ stats = [hit |-> 0, miss |-> 0]
    /\ hist = [k \in Keys |-> NoSet]
    /\ dumped = NoDump
    /\ calls = [hit |-> 0, miss |-> 0]
    /\ opts \in OptsKinds
    /\ timer = construct(opts, ttl)
    /\ SyncIdle
    /\ CommentInit

TimerFires ==
    Sweep /\ UNCHANGED <<syncVars, commentVars>>

NextTimer ==
    \/ TimerFires
    \/ /\ UNCHANGED <<syncVars, commentVars, timerVars>>
       /\ \/ Tick
          \/ \E k \in Keys, v \in Values : Set(k, v)
          \/ \E k \in Keys, s \in BOOLEAN : Get(k, s)

SpecTimer == InitTimer /\ [][NextTimer]_vars /\ WF_vars(TimerFires)

\* A cache that is dumped, and a second cache constructed on the same slot.
NextReload ==
    /\ UNCHANGED <<syncVars, commentVars, timerVars>>
    /\ \/ Tick
       \/ \E k \in Keys, v \in Values : Set(k, v)
       \/ Invalidate
       \/ Dump
       \/ Reload

SpecReload == InitCache /\ [][NextReload]_vars

\* A cache whose slot can be lost or damaged between dump and load.
NextSlot ==
    /\ UNCHANGED <<syncVars, commentVars, timerVars>>
    /\ \/ Tick
       \/ \E k \in Keys, v \in Values : Set(k, v)
       \/ Dump
       \/ Load
       \/ \E f \in BadFiles : Corrupt(f)

SpecSlot == InitCache /\ [][NextSlot]_vars

\* A TTLCacheWithStats under its callers.
NextStats ==
    /\ UNCHANGED <<syncVars, commentVars, timerVars>>
    /\ \/ Tick
       \/ \E k \in Keys, v \in Values : Set(k, v)
       \/ \E k \in Keys, s \in BOOLEAN : StatsGet(k, s)
       \/ \E k \in Keys, s \in BOOLEAN : StatsHas(k, s)
       \/ Invalidate
       \/ ClearStats

SpecStats == InitCache /\ [][NextStats]_vars

\* One consumer iterating getCommits for one key, pass after pass, while
\* commits land on the remote and the clock advances.
Solo == {1}
NextSync ==
    \/ SyncTick
    \/ \E d \in 1..MaxCommits : Push(d)
    \/ \E p \in Solo : Start(p)
    \/ \E p \in Solo : Bootstrap(p)
    \/ \E p \in Solo : BootstrapFail(p)
    \/ \E p \in Solo : Drain(p)
    \/ \E p \in Solo : Fetch(p)
    \/ \E p \in Solo : FetchFail(p)
    \/ \E p \in Solo : Yield(p)
    \/ \E p \in Solo : AfterPage(p)
    \/ \E p \in Solo : Written(p)
    \/ \E p \in Solo : WriteFail(p)
    \/ \E p \in Solo : Stop(p)
    \/ \E p \in Solo : Return(p)

\* The commits cache before the first call of getCommits.
InitSync ==
    SyncInit /\ SyncIdle /\ CommentInit

\* Callers of getIssueCommentors for one repository, call after call, while
\* people comment and the clock advances.
NextComment ==
    \/ CommentTick
    \/ \E l \in Logins : Comment(l)
    \/ GetIssueCommentors

InitComment ==
    CacheInit /\ SyncIdle /\ CommentInit

SpecComment == InitComment /\ [][NextComment]_vars

SpecSync == InitSync /\ [][NextSync]_vars

\* The same consumer on a repository whose HEAD can also be force-pushed.
NextRewrite ==
    \/ NextSync
    \/ \E d \in 1..MaxCommits : ForcePush(d)

SpecRewrite == InitSync /\ [][NextRewrite]_vars

\* Two consumers iterating getCommits for the same key at once on the
\* single-threaded runtime: the steps of the two generators interleave at
\* their awaits and yields.  Every request succeeds, every consumer drains its
\* generator, and every commit has a date of its own.
NextPair ==
    \/ SyncTick
    \/ Push(remote[Len(remote)].date + 1)
    \/ \E p \in Passes : Start(p)
    \/ \E p \in Passes : Bootstrap(p)
    \/ \E p \in Passes : Drain(p)
    \/ \E p \in Passes : Fetch(p)
    \/ \E p \in Passes : Yield(p)
    \/ \E p \in Passes : AfterPage(p)
    \/ \E p \in Passes : Written(p)
    \/ \E p \in Passes : Return(p)

SpecPair == InitSync /\ [][NextPair]_vars

\* --------------------------------------------------------------------- C1
\* what get(k) without allowStale must return for a set(k, v) made at h.time
Expected(h) == IF now - h.time <= ttl THEN h.value ELSE Null

\* C1 (as claimed): if set(k, v) happened at time t and no later set(k, ...),
\* invalidate() or TTL change intervened, get(k) without allowStale returns v
\* while now - t <= TTL and absent once now - t > TTL.
C1_Original ==
    /\ \A k \in Keys :
         hist[k].set /\ ~hist[k].swept
           => get(cache, k, FALSE, now, ttl) = Expected(hist[k])
    /\ (ret.op = "get" /\ ~ret.stale /\ hist[ret.key].set /\ ~hist[ret.key].swept)
           => ret.val = Expected(hist[ret.key])

\* C1 (amended): the same, provided no load() that restores an entry for k
\* intervened either.
C1_TTLMonotonicity ==
    /\ \A k \in Keys :
         hist[k].set /\ ~hist[k].swept /\ ~hist[k].loaded
           => get(cache, k, FALSE, now, ttl) = Expected(hist[k])
    /\ (ret.op = "get" /\ ~ret.stale /\ hist[ret.key].set
          /\ ~hist[ret.key].swept /\ ~hist[ret.key].loaded)
           => ret.val = Expected(hist[ret.key])

\* a get(k) that answers absent for an entry still in the mapping, set and
\* then left alone until it expired
C1_Witness ==
    /\ ret.op = "get" /\ ~ret.stale /\ ret.val = Null
    /\ hist[ret.key].set /\ ~hist[ret.key].swept /\ ~hist[ret.key].loaded
    /\ ret.key \in DOMAIN cache
    /\ now - hist[ret.key].time > ttl

\* --------------------------------------------------------------------- C2
\* C2: once the entry for k has expired, get(k, allowStale = true) keeps
\* returning the last-set value across any get / has calls and the passing of
\* time; an invalidate() that runs while the entry is stale makes
\* get(k, true) absent.
C2_StaleReadOverride ==
    /\ [](\A k \in Keys :
            (hist[k].set /\ ~hist[k].loaded /\ k \in DOMAIN cache)
               => get(cache, k, TRUE, now, ttl) = hist[k].value)
    /\ [][\A k \in Keys :
            (/\ k \in DOMAIN cache
             /\ isBusted(cache[k].time, now, ttl)
             /\ ret'.op \in {"get", "has", "none"})
               => get(cache', k, TRUE, now', ttl') = cache[k].value]_vars
    /\ [][\A k \in Keys :
            (/\ k \in DOMAIN cache
             /\ isBusted(cache[k].time, now, ttl)
             /\ ret'.op = "invalidate")
               => get(cache', k, TRUE, now', ttl') = Null]_vars

\* a get(k, true) that returned the value of an expired entry
C2_Witness ==
    /\ ret.op = "get" /\ ret.stale /\ ret.val # Null
    /\ ret.key \in DOMAIN cache
    /\ isBusted(cache[ret.key].time, now, ttl)
    /\ ret.val = hist[ret.key].value

\* --------------------------------------------------------------------- C3
\* C3: invalidate() called twice in a row (nothing in between, the clock at
\* the same reading) leaves the mapping the first call produced: same keys,
\* values and insertion times.
C3_EvictionIdempotence ==
    /\ [](invalidate(invalidate(cache, now, ttl), now, ttl)
            = invalidate(cache, now, ttl))
    /\ [][(ret.op = "invalidate" /\ ret'.op = "invalidate")
            => cache' = cache]_vars

\* an invalidate() that has just evicted an entry
C3_Witness ==
    /\ ret.op = "invalidate"
    /\ \E k \in Keys : hist[k].set /\ k \notin DOMAIN cache

C5_DumpDropsStale ==
    /\ []((fresh.built /\ dumped.valid)
            => \A k \in dumped.stale :
                 get(fresh.cache, k, TRUE, now, ttl) = Null)
    /\ [][ret'.op = "dump" => cache' = cache]_vars

\* a reloaded cache lacks a key that was stale at dump() and is still in the
\* dumping cache's mapping
C5_Witness ==
    /\ fresh.built /\ dumped.valid /\ dumped.same
    /\ \E k \in dumped.stale : k \in DOMAIN cache /\ k \notin DOMAIN fresh.cache
    /\ fresh.cache # <<>>

\* --------------------------------------------------------------------- C6
\* the slot holds a JSON list of [key, entry] pairs
WellFormed(f) ==
    /\ f.kind = "json"
    /\ f.val.t = "list"
    /\ \A i \in 1..Len(f.val.items) : f.val.items[i].t = "pair"

\* C6: whenever the slot is missing, unreadable or malformed, load() returns
\* the cache itself, raises nothing, and leaves the mapping as it was.
C6_LoadRecoverable ==
    [][(ret'.op = "load" /\ ~WellFormed(file))
         => (ret'.val = Str("this") /\ cache' = cache)]_vars

\* --------------------------------------------------------------------- C7
\* C7: the counters of a stats-tracking cache equal the number of get calls
\* made by the caller that returned a value (hit) and that returned absent
\* (miss) since construction or the last clearStats(); has, set and
\* invalidate leave them unchanged; clearStats() zeroes both and leaves the
\* mapping unchanged.
C7_StatsAccuracy ==
    /\ [](stats = calls)
    /\ [][ret'.op \in {"has", "set", "invalidate"} => stats' = stats]_vars
    /\ [][ret'.op = "clearStats"
            => (stats' = [hit |-> 0, miss |-> 0] /\ cache' = cache)]_vars

\* --------------------------------------------------------------------- C8
\* the fetcher returned nothing, or only one item dated at the marker
OnlyBoundary(s) ==
    \/ s.raw = <<>>
    \/ Len(s.raw) = 1 /\ s.raw[1].date = s.cachedSince

\* C8: a warm pass (the cache returned the record {marker M, items}) in which
\* the fetcher returns no item newer than M - only the boundary item at M, or
\* nothing - delivers exactly the stored items, once each and in order, calls
\* neither cache.set nor dump, and leaves marker and items as they were.
C8_SyncResume ==
    \A p \in Passes :
      (pass[p].pc = "done" /\ pass[p].warm /\ OnlyBoundary(pass[p]))
        => /\ pass[p].delivered = pass[p].start.items
           /\ ~pass[p].wrote
           /\ RecordOf(cache, heap) = pass[p].start

\* a warm pass over two stored commits that met only the boundary item
C8_Witness ==
    \E p \in Passes :
      /\ pass[p].pc = "done" /\ pass[p].warm
      /\ Len(pass[p].raw) = 1 /\ pass[p].raw[1].date = pass[p].cachedSince
      /\ Len(pass[p].start.items) >= 2
      /\ pass[p].delivered = pass[p].start.items

\* --------------------------------------------------------------------- C9
\* the fetcher returned one item newer than the marker, and the boundary item
OneNewItem(s) ==
    /\ Len(s.raw) = 2
    /\ s.raw[1].date > s.cachedSince
    /\ s.raw[2].date = s.cachedSince

\* C9: a warm pass over {marker M, items} in which the fetcher returns one new
\* item d after M delivers the stored items and then d, commits
\* {marker = d's commit date, items followed by d} with cache.set, and dumps
\* the cache: the slot then holds that record.
C9_SyncProgress ==
    \A p \in Passes :
      (pass[p].pc = "done" /\ pass[p].warm /\ OneNewItem(pass[p]))
        => LET d == pass[p].raw[1]
               all == pass[p].start.items \o <<d>>
           IN  /\ pass[p].delivered = all
               /\ pass[p].wrote
               /\ RecordOf(cache, heap)
                    = [present |-> TRUE, since |-> d.date, items |-> all]
               /\ file = stringify(<<[t |-> "pair", key |-> SyncKey,
                            entry |-> [time |-> now,
                                       value |-> [since |-> d.date,
                                                  commits |-> all]]]>>)

\* a warm pass that delivered a stored commit and a new one, and committed
C9_Witness ==
    \E p \in Passes :
      /\ pass[p].pc = "done" /\ pass[p].warm /\ OneNewItem(pass[p])
      /\ pass[p].start.items # <<>>
      /\ Len(pass[p].delivered) = Len(pass[p].start.items) + 1
      /\ file.kind = "json"

\* -------------------------------------------------------------------- C10
\* C10: a pass that ends before Committing - a page fetch failed, or the
\* consumer stopped consuming - leaves the sync-state record the cache holds
\* for the key (marker and item sequence) as it was before the pass.
C10_UncommittedPassLeavesState ==
    \A p \in Passes :
      (pass[p].pc \in {"error", "stopped"} /\ ~pass[p].wrote)
        => RecordOf(cache, heap) = pass[p].start

\* -------------------------------------------------------------------- C11
\* C11: a cold pass (cache.get gave no fresh record for the key) whose
\* getSinceDate throws ends with that error: nothing has been delivered, no
\* page has been requested, cache.set and dump() have not run, and the cache
\* holds for the key what it held before.
C11_BootstrapFailureIsClean ==
    \A p \in Passes :
      pass[p].boot = "failed"
        => /\ pass[p].pc = "error"
           /\ ~pass[p].warm
           /\ pass[p].delivered = <<>>
           /\ pass[p].reqs = 0 /\ pass[p].raw = <<>>
           /\ ~pass[p].wrote
           /\ RecordOf(cache, heap) = pass[p].start

\* getSinceDate failed in a pass that found a stale record in the cache
C11_Witness ==
    \E p \in Passes :
      /\ pass[p].boot = "failed" /\ pass[p].pc = "error"
      /\ pass[p].start.present
      /\ file.kind = "json"

\* -------------------------------------------------------------------- C12
\* C12: a call of getIssueCommentors whose key is not fresh in the in-memory
\* cache delivers the commentors stored in the durable cache first, in stored
\* order, delivers no login twice, and completes without error.
C12_CommentorSync ==
    (result.op = "call" /\ ~result.fresh)
      => /\ result.how = "done"
         /\ Len(result.delivered) >= Len(result.stored)
         /\ SubSeq(result.delivered, 1, Len(result.stored)) = result.stored
         /\ \A i, j \in 1..Len(result.delivered) :
              result.delivered[i] = result.delivered[j] => i = j

\* -------------------------------------------------------------------- C13
\* no commit identifier occurs twice in q
NoDuplicate(q) == \A i, j \in 1..Len(q) : q[i].oid = q[j].oid => i = j

\* C13: in any single getCommits call, warm or cold, no commit identifier is
\* delivered to the caller more than once, also when several commits share
\* the marker's timestamp.
C13_NoDuplicateDelivery ==
    \A p \in Passes : NoDuplicate(pass[p].delivered)

\* -------------------------------------------------------------------- C14
\* the newest commit of q (identifiers grow along the history)
Newest(q) == CHOOSE c \in {q[i] : i \in 1..Len(q)} :
                 \A i \in 1..Len(q) : q[i].oid <= c.oid

\* C14: whatever passes completed, failed or were abandoned, the item sequence
\* of the key's sync-state record holds every observed commit once; after a
\* pass that committed, the record holds what the pass delivered, in that
\* order, and its marker is the commit date of the newest item the pass
\* observed; a pass whose new items carry the old marker's timestamp leaves
\* the stored item sequence as it was.
C14_SyncStateInvariant ==
    /\ NoDuplicate(RecordOf(cache, heap).items)
    /\ \A p \in Passes :
         (pass[p].pc = "done" /\ pass[p].wrote)
           => /\ RecordOf(cache, heap).items = pass[p].delivered
              /\ RecordOf(cache, heap).since = Newest(pass[p].delivered).date
    /\ \A p \in Passes :
         (pass[p].pc = "done" /\ pass[p].warm /\ pass[p].raw # <<>>
            /\ pass[p].raw[1].date = pass[p].cachedSince)
           => RecordOf(cache, heap).items = pass[p].start.items

\* -------------------------------------------------------------------- C15
\* the commits the pass took from the cache before its first page
FromCache(s) == IF s.warm THEN s.start.items ELSE <<>>

\* C15: in a pass that ran to its end, at most one of the nodes the fetcher
\* returned was left out (on the page without continuation), and every node
\* it returned that is strictly newer than the resume marker was delivered to
\* the caller and is in the record, whether or not the last page held the
\* boundary item.
C15_NoItemSkipped ==
    \A p \in Passes :
      pass[p].pc = "done"
        => /\ Len(pass[p].delivered) + 1 >= Len(FromCache(pass[p])) + Len(pass[p].raw)
           /\ \A i \in 1..Len(pass[p].raw) :
                pass[p].raw[i].date > pass[p].since
                  => /\ \E j \in 1..Len(pass[p].delivered) :
                          pass[p].delivered[j] = pass[p].raw[i]
                     /\ \E j \in 1..Len(RecordOf(cache, heap).items) :
                          RecordOf(cache, heap).items[j] = pass[p].raw[i]

\* -------------------------------------------------------------------- C16
\* C16: a page is requested only by a pass that is being consumed, and only
\* once the consumer has received every cached item (warm pass) and every
\* item of the pages fetched so far; a pass whose consumer stopped requests
\* nothing more.
C16_RequestsFollowConsumption ==
    [][\A p \in Passes :
         pass'[p].reqs > pass[p].reqs
           => /\ pass[p].pc \in {"drain", "page"}
              /\ pass[p].delivered = FromCache(pass[p]) \o pass[p].raw]_vars

\* a warm pass has requested its second page, the cached commits and the
\* whole first page delivered
C16_Witness ==
    \E p \in Passes :
      /\ pass[p].pc = "fetch" /\ pass[p].warm /\ pass[p].reqs = 2
      /\ pass[p].start.items # <<>>
      /\ Len(pass[p].raw) = PageSize
      /\ pass[p].delivered = pass[p].start.items \o pass[p].raw

\* -------------------------------------------------------------------- C17
\* the entry the slot holds for key k
stored(f, k) ==
    LET items == f.val.items
    IN  items[CHOOSE i \in 1..Len(items) : items[i].key = k].entry

\* C17 (as claimed): every entry present in the mapping carries the time (and
\* value) of the most recent set for its key; a load() after a newer set does
\* not put an older stored time or value in its place.
C17_Original ==
    \A k \in Keys :
      k \in DOMAIN cache
        => cache[k] = [time |-> hist[k].time, value |-> hist[k].value]

\* C17 (amended): every entry present carries the time and value of the most
\* recent set for its key unless a load() has restored the key since; load()
\* gives every key in the slot the stored time and value, also when the
\* in-memory entry is newer, and leaves the other entries alone.
C17_InsertionTime ==
    /\ [](\A k \in Keys :
            (k \in DOMAIN cache /\ ~hist[k].loaded)
              => cache[k] = [time |-> hist[k].time, value |-> hist[k].value])
    /\ [][ret'.op = "load"
            => \A k \in Keys :
                 IF k \in loadedKeys(file)
                 THEN k \in DOMAIN cache' /\ cache'[k] = stored(file, k)
                 ELSE (k \in DOMAIN cache') = (k \in DOMAIN cache)
                        /\ (k \in DOMAIN cache => cache'[k] = cache[k])]_vars

\* a load() has put an older stored entry in the place of a newer set
C17_Witness ==
    /\ ret.op = "load"
    /\ \E k \in DOMAIN cache :
         /\ hist[k].loaded
         /\ cache[k].time < hist[k].time
         /\ cache[k].value # hist[k].value

\* -------------------------------------------------------------------- C18
\* C18: invalidate() at time now removes the entries with now - insertedAt >
\* TTL and keeps every other entry with its value and insertedAt; get and has
\* change nothing in the mapping; on a durable cache (TTL = maximum)
\* invalidate() changes nothing.
C18_InvalidateExact ==
    /\ [][ret'.op = "invalidate"
            => cache' = [k \in {x \in DOMAIN cache : now - cache[x].time <= ttl}
                           |-> cache[k]]]_vars
    /\ [][ret'.op \in {"get", "has"} => cache' = cache]_vars
    /\ [][(ret'.op = "invalidate" /\ ttl = ImmutableTTL) => cache' = cache]_vars

\* an invalidate() that removed one key and kept the other
C18_Witness ==
    /\ ret.op = "invalidate"
    /\ \E k \in Keys : hist[k].set /\ ~hist[k].loaded /\ k \notin DOMAIN cache
    /\ \E k \in DOMAIN cache : now - cache[k].time <= ttl
    /\ ttl # ImmutableTTL

\* -------------------------------------------------------------------- C19
\* the entry for k is in the mapping and older than the TTL
Stale(k) == k \in DOMAIN cache /\ now - cache[k].time > ttl
\* the cache was given a name: a string, or a record with a name
Named(o) == o.kind = "string" \/ (o.kind = "record" /\ o.name)
\* auto-eviction was disabled: a record with noEvict set
Disabled(o) == o.kind = "record" /\ o.noEvict

\* C19 (as claimed): a cache constructed with a name (a plain string, or
\* inside an options record) and auto-eviction not disabled runs invalidate()
\* on a timer, so every entry that becomes stale is eventually removed with no
\* caller invoking invalidate(); a cache constructed with auto-eviction
\* disabled or without a name never removes an entry on its own.
C19_Original ==
    /\ \A k \in Keys :
         (Named(opts) /\ ~Disabled(opts) /\ Stale(k)) ~> ~Stale(k)
    /\ [][(~Named(opts) \/ Disabled(opts))
            => \A k \in DOMAIN cache : k \in DOMAIN cache']_vars

\* C19 (amended): the timer is set exactly for a cache constructed with an
\* options record whose noEvict is not set, named or not; on such a cache
\* every entry that becomes stale is eventually removed with no caller
\* invoking invalidate(); a cache constructed with a plain string name, with
\* noEvict set, or without options never removes an entry on its own.
C19_AutoEviction ==
    /\ [](timer.armed <=> (opts.kind = "record" /\ ~opts.noEvict))
    /\ \A k \in Keys : (timer.armed /\ Stale(k)) ~> ~Stale(k)
    /\ [][~timer.armed => \A k \in DOMAIN cache : k \in DOMAIN cache']_vars

\* the timer of a cache made with an options record has removed an entry
C19_Witness ==
    /\ timer.armed /\ opts.kind = "record"
    /\ timer.due > timer.period
    /\ \E k \in Keys : hist[k].set /\ hist[k].swept /\ k \notin DOMAIN cache

\* -------------------------------------------------------------------- C20
\* C20: with two getCommits calls for one key in flight, interleaved in any
\* order, each caller receives every commit at most once; and once both have
\* finished, the sync-state record of the key holds each commit once and its
\* marker is the date of the newest commit it holds.
C20_ConcurrentSyncs ==
    /\ \A p \in Passes : NoDuplicate(pass[p].delivered)
    /\ (\A p \in Passes : pass[p].pc = "done")
         => /\ NoDuplicate(RecordOf(cache, heap).items)
            /\ RecordOf(cache, heap).items # <<>>
                 => RecordOf(cache, heap).since
                      = Newest(RecordOf(cache, heap).items).date

====
